---- MODULE Spec2Model ----
(***************************************************************************)
(* Model of the interest accrual engine of the time-deposit service:       *)
(* TimeDepositCalculator.update_balance                                    *)
(* (app/domain/entities/time_deposit.py).                                  *)
(*                                                                         *)
(* The code computes with Python floats (IEEE-754 binary64, round to       *)
(* nearest, ties to even) and with the builtin round(x, 2).  Both are      *)
(* modelled bit for bit: a float is a record [m, e] standing for m * 2^e   *)
(* with m a 53-bit natural number, and naturals wider than TLC's integers  *)
(* are little-endian sequences of limbs in base 2^15.  Only non-negative   *)
(* finite values far from the overflow and subnormal ranges occur.         *)
(***************************************************************************)
EXTENDS Integers, Sequences, FiniteSets, TLC

(***************************************************************************)
(* Natural numbers of arbitrary width.                                     *)
(***************************************************************************)
Base == 2^15

Pow2(n) == 2^n

RECURSIVE Norm(_)
Norm(a) ==
    IF a = <<>> THEN <<>>
    ELSE IF a[Len(a)] = 0 THEN Norm(SubSeq(a, 1, Len(a) - 1))
    ELSE a

RECURSIVE BigOf(_)
BigOf(n) == IF n = 0 THEN <<>> ELSE <<n % Base>> \o BigOf(n \div Base)

Limb(a, k) == IF k <= Len(a) THEN a[k] ELSE 0

RECURSIVE AddC(_, _, _)
AddC(a, b, c) ==
    IF a = <<>> /\ b = <<>> THEN (IF c = 0 THEN <<>> ELSE <<c>>)
    ELSE LET s == Limb(a, 1) + Limb(b, 1) + c
         IN  <<s % Base>> \o
             AddC(IF a = <<>> THEN <<>> ELSE Tail(a),
                  IF b = <<>> THEN <<>> ELSE Tail(b), s \div Base)

BAdd(a, b) == AddC(a, b, 0)

RECURSIVE MulC(_, _, _)
MulC(a, k, c) ==
    IF a = <<>> THEN BigOf(c)
    ELSE LET s == a[1] * k + c
         IN  <<s % Base>> \o MulC(Tail(a), k, s \div Base)

\* a * k for 0 <= k < Base
BMulSmall(a, k) == Norm(MulC(a, k, 0))

RECURSIVE BMul(_, _)
BMul(a, b) ==
    IF b = <<>> THEN <<>>
    ELSE LET rest == BMul(a, Tail(b))
         IN  BAdd(BMulSmall(a, b[1]),
                  IF rest = <<>> THEN <<>> ELSE <<0>> \o rest)

\* <<quotient, remainder>> of a by k, 0 < k < Base, most significant limb first
RECURSIVE DivC(_, _, _, _)
DivC(a, k, n, r) ==
    IF n = 0 THEN <<<<>>, r>>
    ELSE LET cur  == r * Base + a[n]
             rest == DivC(a, k, n - 1, cur % k)
         IN  <<rest[1] \o <<cur \div k>>, rest[2]>>

BDivSmall(a, k) ==
    LET d == DivC(a, k, Len(a), 0) IN <<Norm(d[1]), d[2]>>

RECURSIVE BitLenInt(_)
BitLenInt(n) == IF n = 0 THEN 0 ELSE 1 + BitLenInt(n \div 2)

BitLen(a) == IF a = <<>> THEN 0 ELSE 15 * (Len(a) - 1) + BitLenInt(a[Len(a)])

Zeros(n) == [k \in 1..n |-> 0]

\* a * 2^n
BShl(a, n) ==
    IF a = <<>> THEN <<>>
    ELSE Zeros(n \div 15) \o BMulSmall(a, Pow2(n % 15))

\* floor(a / 2^n)
BShr(a, n) ==
    LET w == n \div 15
    IN  IF w >= Len(a) THEN <<>>
        ELSE BDivSmall(SubSeq(a, w + 1, Len(a)), Pow2(n % 15))[1]

\* a mod 2^n
BLow(a, n) ==
    LET w == n \div 15
    IN  IF w >= Len(a) THEN Norm(a)
        ELSE Norm(SubSeq(a, 1, w) \o <<a[w + 1] % Pow2(n % 15)>>)

\* -1, 0, 1 as a < b, a = b, a > b (normalised arguments)
RECURSIVE CmpAt(_, _, _)
CmpAt(a, b, n) ==
    IF n = 0 THEN 0
    ELSE IF a[n] < b[n] THEN -1
    ELSE IF a[n] > b[n] THEN 1
    ELSE CmpAt(a, b, n - 1)

BCmp(a, b) ==
    IF Len(a) < Len(b) THEN -1
    ELSE IF Len(a) > Len(b) THEN 1
    ELSE CmpAt(a, b, Len(a))

BOdd(a) == a # <<>> /\ a[1] % 2 = 1

(***************************************************************************)
(* binary64 arithmetic on non-negative values.                             *)
(***************************************************************************)
FZero == [m |-> <<>>, e |-> 0]

\* the double nearest to (n + f) * 2^e, ties to even, where 0 <= f < 1 and
\* sticky says f > 0 (sticky only with BitLen(n) >= 55)
RoundToDouble(n, e, sticky) ==
    LET len == BitLen(n)
    IN  IF n = <<>> THEN FZero
        ELSE IF len <= 53 THEN [m |-> BShl(n, 53 - len), e |-> e - (53 - len)]
        ELSE LET s    == len - 53
                 q    == BShr(n, s)
                 c    == BCmp(BLow(n, s), BShl(<<1>>, s - 1))
                 up   == c = 1 \/ (c = 0 /\ (sticky \/ BOdd(q)))
                 q1   == IF up THEN BAdd(q, <<1>>) ELSE q
             IN  IF BitLen(q1) = 54 THEN [m |-> BShr(q1, 1), e |-> e + s + 1]
                 ELSE [m |-> q1, e |-> e + s]

FMul(a, b) == RoundToDouble(BMul(a.m, b.m), a.e + b.e, FALSE)

FAdd(a, b) ==
    IF a.m = <<>> THEN b
    ELSE IF b.m = <<>> THEN a
    ELSE LET e == IF a.e < b.e THEN a.e ELSE b.e
         IN  RoundToDouble(BAdd(BShl(a.m, a.e - e), BShl(b.m, b.e - e)), e, FALSE)

\* a / k for an integer 0 < k < Base (k is exactly a float)
FDivInt(a, k) ==
    LET d == BDivSmall(BShl(a.m, 16), k)
    IN  RoundToDouble(d[1], a.e - 16, d[2] # 0)

\* float(n) for a natural n below 2^53
FloatOfBig(n) == RoundToDouble(n, 0, FALSE)

FloatOf(n) == FloatOfBig(BigOf(n))

\* the float a decimal literal p/q denotes: the double nearest to p/q
FLit(p, q) == FDivInt(FloatOf(p), q)

\* -1, 0, 1 as a < b, a = b, a > b
FCmp(a, b) ==
    IF a.m = <<>> THEN (IF b.m = <<>> THEN 0 ELSE -1)
    ELSE IF b.m = <<>> THEN 1
    ELSE IF a.e < b.e THEN -1
    ELSE IF a.e > b.e THEN 1
    ELSE BCmp(a.m, b.m)

\* round-half-even of x * 100 to an integer, on the exact value of x
CentsDown(x) == BShr(BMulSmall(x.m, 100), -x.e)

CentsHalfUp(x) ==
    BShr(BAdd(BShl(BMulSmall(x.m, 100), 1), BShl(<<1>>, -x.e)), 1 - x.e)

Cents(x) ==
    LET n == BMulSmall(x.m, 100)
    IN  IF x.e >= 0 THEN BShl(n, x.e)
        ELSE LET s  == -x.e
                 q  == BShr(n, s)
                 c  == BCmp(BLow(n, s), BShl(<<1>>, s - 1))
             IN  IF c = 1 \/ (c = 0 /\ BOdd(q)) THEN BAdd(q, <<1>>) ELSE q

\* Python's round(x, 2) on a float: the decimal with 2 digits nearest to the
\* exact value of x (ties to even), converted back to the nearest double
PyRound2(x) == FDivInt(FloatOfBig(Cents(x)), 100)

(***************************************************************************)
(* The records and the inputs of the bounded exploration.                  *)
(***************************************************************************)
MaxLen == 3

MaxCalls == 2

\* TimeDeposit.__init__: withdrawals starts empty, the other fields as given
TimeDeposit(id, planType, balance, days) ==
    [id |-> id, planType |-> planType, balance |-> balance, days |-> days,
     withdrawals |-> <<>>]

PlanTypes == {"basic", "student", "premium", "gold"}

\* both sides of every comparison the code makes on days (30, 45, 366), the
\* smallest day count and one far above every threshold
DayValues == {0, 30, 31, 45, 46, 365, 366, 10000}

\* days = None, the one malformed field of the exploration, encoded by a
\* number no day count of the exploration takes (TLC compares days as integers)
NoDays == 0 - 1

\* <<planType, balance, days>> of the records the sequences are built from
Templates ==
    { <<"basic", FLit(100000, 100), 45>>,
      <<"student", FLit(200000, 100), 180>>,
      <<"premium", FLit(300000, 100), 60>>,
      <<"gold", FLit(50000, 100), 400>>,
      <<"basic", FLit(125, 1000), 10>>,
      <<"student", FLit(100000, 100), NoDays>> }

RECURSIVE TemplateSeqs(_)
TemplateSeqs(n) ==
    IF n = 0 THEN {<<>>}
    ELSE LET shorter == TemplateSeqs(n - 1)
         IN  shorter \cup
             {Append(s, t) : s \in {u \in shorter : Len(u) = n - 1}, t \in Templates}

\* one record of every plan type at every day value, alone and after a
\* record that contributes
ThresholdSeqs ==
    {p \o <<<<plan, FLit(100000, 100), d>>>> :
        p \in {<<>>, <<<<"basic", FLit(100000, 100), 45>>>>},
        plan \in PlanTypes, d \in DayValues}

Deposits(s) ==
    [k \in 1..Len(s) |-> TimeDeposit(k, s[k][1], s[k][2], s[k][3])]

\* sums that fall on or beside the middle between two cents: 6.00 + 0.005,
\* 0.00 + an accumulator of 0.3/12 that interest * 100 / 100 moves, and
\* 1.00 + that accumulator
RoundingSeqs ==
    { << <<"basic", FLit(600, 100), 45>> >>,
      << <<"student", FLit(1000, 100), 180>>, <<"gold", FLit(0, 100), 400>> >>,
      << <<"student", FLit(1000, 100), 180>>, <<"basic", FLit(100, 100), 10>> >> }

Inputs ==
    {Deposits(s) : s \in TemplateSeqs(MaxLen) \cup ThresholdSeqs \cup RoundingSeqs}

(***************************************************************************)
(* TimeDepositCalculator.update_balance                                    *)
(***************************************************************************)
VARIABLES
    xs,        \* the list passed to update_balance, mutated in place
    interest,  \* the local accumulator of the running call
    i,         \* position of the for loop: xs[i] is the next record
    pc,        \* "idle", "loop" (inside update_balance) or "raised"
    calls,     \* number of calls of update_balance made on xs
    orig,      \* history: xs as it was when the running call started
    acc,       \* history: interest after each record of the running call
    db,        \* the committed rows of the timeDeposits table
    req        \* the invocations of TimeDepositService.update_all_balances

vars == <<xs, interest, i, pc, calls, orig, acc, db, req>>

\* the state of the calculator exploration and the state of the service
cvars == <<xs, interest, i, pc, calls, orig, acc>>

svars == <<db, req>>

Requests == {1, 2}

\* an invocation that has not started: line 37 not yet reached
NewRequest ==
    [pc |-> "start", deposits |-> <<>>, got |-> <<>>, read |-> <<>>,
     original_balances |-> <<>>, trace |-> <<>>, presave |-> <<>>,
     stored |-> <<>>,
     response |-> <<>>, error |-> "", failure |-> "", http |-> <<>>]

\* line 53: td.days > 30 raises TypeError when days is None; no other
\* statement of the loop raises on a number, and no plan type is rejected
RaisesOnUnknownPlan(td) ==
    td.days = NoDays \/ td.planType \notin {"basic", "student", "premium"}

Raises(td) == td.days = NoDays

\* line 62: round(td.balance + ((interest * 100) / 100), 2)
NewBalance(td, int) ==
    PyRound2(FAdd(td.balance, FDivInt(FMul(int, FloatOf(100)), 100)))

\* line 62: the assignment writes the balance attribute of td
AssignToCopy(td, bal) == TimeDeposit(0, td.planType, bal, td.days)

Assign(td, bal) == [td EXCEPT !.balance = bal]

\* line 53: if td.days > 30
OverThirtyGe(td) == td.days >= 30

OverThirty(td) == td.days > 30

\* line 55: if td.days < 366
StudentCapLe(td) == td.days <= 366

StudentCap(td) == td.days < 366

\* line 58: if td.days > 45
PremiumMinGe(td) == td.days >= 45

PremiumMin(td) == td.days > 45

\* line 60: elif td.planType == 'basic'
IsBasicOrOther(td) == td.planType \notin {"student", "premium"}

IsBasic(td) == td.planType = "basic"

\* lines 56, 59, 61: (td.balance * rate) / 12, rate the float of the literal
\* p/100
MonthlyOfYear(balance, p) == FMul(balance, FLit(p, 100))

MonthlyRounded(balance, p) ==
    PyRound2(FDivInt(FMul(balance, FLit(p, 100)), 12))

Monthly(balance, p) == FDivInt(FMul(balance, FLit(p, 100)), 12)

\* lines 53-61: the accumulator after the plan rules are applied to td
AccrueReset(int, td) ==
    IF OverThirty(td) /\ td.planType = "student" /\ StudentCap(td)
    THEN Monthly(td.balance, 3)
    ELSE IF OverThirty(td) /\ td.planType = "premium" /\ PremiumMin(td)
    THEN Monthly(td.balance, 5)
    ELSE IF OverThirty(td) /\ IsBasic(td)
    THEN Monthly(td.balance, 1)
    ELSE FZero

AccrueAfter(int, td) ==
    LET after == NewBalance(td, int)
    IN  IF OverThirty(td) /\ td.planType = "student" /\ StudentCap(td)
        THEN FAdd(int, Monthly(after, 3))
        ELSE IF OverThirty(td) /\ td.planType = "premium" /\ PremiumMin(td)
        THEN FAdd(int, Monthly(after, 5))
        ELSE IF OverThirty(td) /\ IsBasic(td)
        THEN FAdd(int, Monthly(after, 1))
        ELSE int

Accrue(int, td) ==
    IF OverThirty(td)
    THEN IF td.planType = "student"
         THEN IF StudentCap(td)
              THEN FAdd(int, Monthly(td.balance, 3))
              ELSE int
         ELSE IF td.planType = "premium"
         THEN IF PremiumMin(td)
              THEN FAdd(int, Monthly(td.balance, 5))
              ELSE int
         ELSE IF IsBasic(td)
         THEN FAdd(int, Monthly(td.balance, 1))
         ELSE int
    ELSE int

\* lines 51-62 as one function of the list: the list as update_balance leaves
\* it, and whether it left by an exception
RECURSIVE UpdateFrom(_, _, _)
UpdateFrom(s, k, int) ==
    IF k > Len(s) THEN [xs |-> s, raised |-> FALSE]
    ELSE IF Raises(s[k]) THEN [xs |-> s, raised |-> TRUE]
    ELSE LET n == Accrue(int, s[k])
         IN  UpdateFrom([s EXCEPT ![k] = Assign(s[k], NewBalance(s[k], n))],
                        k + 1, n)

UpdateBalance(s) == UpdateFrom(s, 1, FZero)

Init ==
    /\ xs \in Inputs
    /\ interest = FZero
    /\ i = 1
    /\ pc = "idle"
    /\ calls = 0
    /\ orig = xs
    /\ acc = <<>>
    /\ db = <<>>
    /\ req = [r \in Requests |-> NewRequest]

\* line 51: a call of update_balance(xs) starts with interest = 0
CallCarry ==
    /\ pc \in {"idle", "raised"}
    /\ calls < MaxCalls
    /\ pc' = "loop"
    /\ interest' = interest
    /\ i' = 1
    /\ calls' = calls + 1
    /\ orig' = xs
    /\ acc' = <<>>
    /\ xs' = xs
    /\ UNCHANGED svars

CallOnFirst ==
    /\ pc \in {"idle", "raised"}
    /\ calls < MaxCalls
    /\ pc' = IF xs = <<>> THEN "raised" ELSE "loop"
    /\ interest' = FZero
    /\ i' = 1
    /\ calls' = calls + 1
    /\ orig' = xs
    /\ acc' = <<>>
    /\ xs' = xs
    /\ UNCHANGED svars

Call ==
    /\ pc \in {"idle", "raised"}
    /\ calls < MaxCalls
    /\ pc' = "loop"
    /\ interest' = FZero
    /\ i' = 1
    /\ calls' = calls + 1
    /\ orig' = xs
    /\ acc' = <<>>
    /\ xs' = xs
    /\ UNCHANGED svars

\* lines 52-62: one iteration of the for loop
StepRewrites ==
    /\ pc = "loop"
    /\ i <= Len(xs)
    /\ IF Raises(xs[i])
       THEN /\ pc' = "raised"
            /\ UNCHANGED <<xs, interest, i, calls, orig, acc, svars>>
       ELSE LET int == Accrue(interest, xs[i])
            IN  /\ interest' = int
                /\ xs' = [k \in 1..Len(xs) |->
                              IF k <= i THEN Assign(xs[k], NewBalance(xs[k], int))
                              ELSE xs[k]]
                /\ i' = i + 1
                /\ acc' = Append(acc, int)
                /\ UNCHANGED <<pc, calls, orig, svars>>

StepSkips ==
    /\ pc = "loop"
    /\ i <= Len(xs)
    /\ IF Raises(xs[i])
       THEN /\ pc' = "raised"
            /\ UNCHANGED <<xs, interest, i, calls, orig, acc, svars>>
       ELSE LET int == Accrue(interest, xs[i])
            IN  /\ interest' = int
                /\ xs' = [xs EXCEPT ![i] = Assign(xs[i], NewBalance(xs[i], int))]
                /\ i' = i + 2
                /\ acc' = Append(acc, int)
                /\ UNCHANGED <<pc, calls, orig, svars>>

Step ==
    /\ pc = "loop"
    /\ i <= Len(xs)
    /\ IF Raises(xs[i])
       THEN /\ pc' = "raised"
            /\ UNCHANGED <<xs, interest, i, calls, orig, acc, svars>>
       ELSE LET int == Accrue(interest, xs[i])
            IN  /\ interest' = int
                /\ xs' = [xs EXCEPT ![i] = Assign(xs[i], NewBalance(xs[i], int))]
                /\ i' = i + 1
                /\ acc' = Append(acc, int)
                /\ UNCHANGED <<pc, calls, orig, svars>>

\* the for loop is exhausted and update_balance returns None
Return ==
    /\ pc = "loop"
    /\ i > Len(xs)
    /\ pc' = "idle"
    /\ UNCHANGED <<xs, interest, i, calls, orig, acc, svars>>

Next == Call \/ Step \/ Return

Spec == Init /\ [][Next]_vars

\* a step of a running call, seen on its position only: an iteration moves
\* to the next record or raises (Step), the exhausted loop returns (Return)
Running ==
    /\ pc = "loop"
    /\ \/ i' = i + 1 /\ pc' = "loop"
       \/ i' = i /\ pc' \in {"idle", "raised"}

\* a running call goes on: the interpreter executes the next iteration of the
\* for loop, and the return when the list is exhausted. In every state of a
\* running call exactly one of Step and Return is enabled, and the steps of
\* Running are their steps
SpecFair == Spec /\ WF_<<i, pc>>(Running)

(***************************************************************************)
(* TimeDepositService.update_all_balances over the repository adapter.     *)
(* A stored row keeps its balance as a Decimal of scale 2, here its number *)
(* of cents; a domain deposit keeps it as a float.                         *)
(***************************************************************************)
MaxRows == 2

RECURSIVE IntOf(_)
IntOf(a) == IF a = <<>> THEN 0 ELSE a[1] + Base * IntOf(Tail(a))

\* a TimeDepositModel made by its constructor has no withdrawals
TimeDepositModel(id, planType, days, balance) ==
    [id |-> id, planType |-> planType, days |-> days, balance |-> balance,
     withdrawals |-> <<>>]

\* the id of a deposit that has none: "if domain.id" is false for None and 0
NoId == 0

\* _model_to_domain, line 103: float(model.balance), the double nearest to
\* the decimal cents / 100
FloatOfDecimal(cents) == FDivInt(FloatOf(cents), 100)

\* _model_to_domain, lines 100-105
ModelToDomain(model) ==
    TimeDeposit(model.id, model.planType, FloatOfDecimal(model.balance),
                model.days)

\* round-half-even of x * k to an integer, on the exact value of x
Scaled(x, k) ==
    LET n == BMulSmall(x.m, k)
    IN  IF x.e >= 0 THEN BShl(n, x.e)
        ELSE LET s  == -x.e
                 q  == BShr(n, s)
                 c  == BCmp(BLow(n, s), BShl(<<1>>, s - 1))
             IN  IF c = 1 \/ (c = 0 /\ BOdd(q)) THEN BAdd(q, <<1>>) ELSE q

\* the numeral of x with n decimal places reads back as x
ReadsBack(x, n) == FDivInt(FloatOfBig(Scaled(x, 10^n)), 10^n) = x

\* str(x) of a float is its shortest numeral that reads back as x: the
\* number of its decimal places, 5 for every numeral of more than 4
RECURSIVE PlacesFrom(_, _)
PlacesFrom(x, n) ==
    IF n > 4 THEN 5
    ELSE IF ReadsBack(x, n) THEN n
    ELSE PlacesFrom(x, n + 1)

StrPlaces(x) == PlacesFrom(x, 0)

\* _domain_to_model, lines 147 and 157: Decimal(str(domain.balance)) held in
\* a Numeric(15, 2) column, as cents. A numeral of at most 2 places is kept
\* as it is; the column rounds a longer one to 2 places, half away from
\* zero (a numeral of more than 4 places is never half-way between two
\* cents, and rounds as the float does)
ColumnOf(digits, n) ==
    IF n <= 2 THEN digits * 10^(2 - n)
    ELSE (digits + 5 * 10^(n - 3)) \div 10^(n - 2)

NumericOf(balance, n) ==
    IF n <= 4 THEN ColumnOf(IntOf(Scaled(balance, 10^n)), n)
    ELSE IntOf(Cents(balance))

DecimalOfStr(balance) == NumericOf(balance, StrPlaces(balance))

\* _domain_to_model, lines 136-143: the stored model of the id of the
\* deposit, none for a deposit without id or of an id that is not stored
ExistingModel(table, domain) ==
    IF domain.id = NoId THEN <<>>
    ELSE SelectSeq(table, LAMBDA row : row.id = domain.id)

\* _domain_to_model, lines 128-158
DomainToModelNew(table, domain) ==
    TimeDepositModel(domain.id, domain.planType, domain.days,
                     DecimalOfStr(domain.balance))

DomainToModel(table, domain) ==
    LET existing_model == ExistingModel(table, domain)
        balance        == DecimalOfStr(domain.balance)
    IN  IF existing_model # <<>>
        THEN [existing_model[1] EXCEPT
                 !.balance = balance,
                 !.planType = domain.planType,
                 !.days = domain.days]
        ELSE TimeDepositModel(domain.id, domain.planType, domain.days,
                              balance)

\* Session.merge of one model: the row of that id is replaced, a model of an
\* id not stored is inserted, a model without id under the next key
Merge(table, model) ==
    IF \E k \in 1..Len(table) : table[k].id = model.id
    THEN [k \in 1..Len(table) |->
              IF table[k].id = model.id THEN model ELSE table[k]]
    ELSE IF model.id = NoId
    THEN Append(table, [model EXCEPT !.id = Len(table) + 1])
    ELSE Append(table, model)

\* save_all_models, lines 115-118: every model merged, then one commit
RECURSIVE SaveAllModels(_, _)
SaveAllModels(table, models) ==
    IF models = <<>> THEN table
    ELSE SaveAllModels(Merge(table, Head(models)), Tail(models))

\* save_all_models, lines 115-117 stopped by a database error: the session
\* holds the models merged before it
MergedBefore(table, models, failAt) ==
    SaveAllModels(table, SubSeq(models, 1, failAt - 1))

\* save_all_models, line 120: self.db.rollback() discards what the session
\* holds, the committed rows stay
RollbackKeeps(committed, session) == session

Rollback(committed, session) == committed

\* <<planType, days, cents>> of the rows the stored tables are built from
StoredTemplates ==
    { <<"basic", 45, 100000>>,
      <<"student", 90, 200000>>,
      <<"premium", 60, 300000>>,
      <<"basic", 25, 500050>> }

RECURSIVE StoredSeqs(_)
StoredSeqs(n) ==
    IF n = 0 THEN {<<>>}
    ELSE LET shorter == StoredSeqs(n - 1)
         IN  shorter \cup
             {Append(s, t) : s \in {u \in shorter : Len(u) = n - 1},
                             t \in StoredTemplates}

\* the three deposits of test_update_all_balances_multiple_plans
ExampleRows ==
    << <<"basic", 45, 100000>>, <<"student", 90, 200000>>,
       <<"premium", 60, 300000>> >>

\* the deposits of a repository of another kind than the adapter (the
\* service is written against TimeDepositRepositoryInterface): one of them
\* has no days, which no row of the table can have
MalformedRows == << <<"basic", 45, 100000>>, <<"student", NoDays, 200000>> >>

\* the primary key is the position of the row in the table; the first
\* deposit has a withdrawal, as in the sample data
Table(s) ==
    [k \in 1..Len(s) |->
        [TimeDepositModel(k, s[k][1], s[k][2], s[k][3]) EXCEPT
            !.withdrawals = IF k = 1 THEN <<1>> ELSE <<>>]]

Tables ==
    {Table(s) : s \in StoredSeqs(MaxRows) \cup {ExampleRows, MalformedRows}}

\* line 52: {d.id: d.balance for d in deposits}; of two deposits with one id
\* the later one stays
OriginalBalances(deposits) ==
    [id \in {deposits[k].id : k \in 1..Len(deposits)} |->
        LET last == CHOOSE k \in 1..Len(deposits) :
                        /\ deposits[k].id = id
                        /\ \A j \in 1..Len(deposits) :
                               deposits[j].id = id => j <= k
        IN  deposits[last].balance]

\* lines 64-67: sum(1 for d in deposits if d.balance != original_balances[d.id])
UpdatedCountAll(deposits, original_balances) == Len(deposits)

UpdatedCount(deposits, original_balances) ==
    Cardinality({k \in 1..Len(deposits) :
                    deposits[k].balance # original_balances[deposits[k].id]})

\* lines 44-49 and 71-76; the timestamp, today's date, is left out
UpdateBalancesResponse(success, message, updated_count) ==
    [success |-> success, message |-> message, updated_count |-> updated_count]

\* line 73
SuccessMessage(updated_count) ==
    "Successfully updated " \o ToString(updated_count)
        \o " time deposit balances"

\* one call the service makes on a collaborator, with the list it passes
CallOf(op, arg) == [op |-> op, arg |-> arg]

\* router lines 40-44: the answer of PUT /time-deposits/updateBalances to a
\* response of the service
HttpOk(response) ==
    [status_code |-> 200,
     body |-> <<response.message, response.updated_count,
                IF response.success THEN "success" ELSE "failed">>]

\* router lines 45-56: a ServiceException, and any other exception, becomes
\* an HTTPException of status 500
HttpError(error) == [status_code |-> 500, body |-> <<error>>]

\* lines 78-80: an exception raised under the try leaves update_all_balances
\* as a ServiceException, which the router answers; failure keeps the call
\* that raised
FailCarriesOn(q, call) == [q EXCEPT !.failure = call]

Fail(q, call) ==
    [q EXCEPT !.pc = "failed", !.error = "ServiceException",
              !.failure = call, !.http = <<HttpError("ServiceException")>>]

\* lines 44-49 and 71-76: the response is returned, and the router answers it
Answer(q, response) ==
    [q EXCEPT !.pc = "done", !.response = <<response>>,
              !.http = <<HttpOk(response)>>]

InitService ==
    /\ xs = <<>>
    /\ interest = FZero
    /\ i = 1
    /\ pc = "idle"
    /\ calls = 0
    /\ orig = <<>>
    /\ acc = <<>>
    /\ db \in Tables
    /\ req = [r \in Requests |-> NewRequest]

\* repository line 39: self.db.query(TimeDepositModel).all() is a SELECT
\* with no ORDER BY: the database returns the rows in an order of its choice.
\* Two of these orders are explored: the order of storage and its reverse
QueryOrders(table) ==
    { [k \in 1..Len(table) |-> k],
      [k \in 1..Len(table) |-> Len(table) + 1 - k] }

\* line 40: deposits = self.repository.get_all(); adapter lines 49-50
GetAll(r) ==
    /\ req[r].pc = "start"
    /\ \E order \in QueryOrders(db) :
           LET deposits == [k \in 1..Len(db) |-> ModelToDomain(db[order[k]])]
           IN  req' = [req EXCEPT
                         ![r].pc = "got",
                         ![r].deposits = deposits,
                         ![r].got = deposits,
                         ![r].read = db,
                         ![r].trace = Append(@, CallOf("get_all", <<>>))]
    /\ UNCHANGED <<db, cvars>>

\* line 40 when the query fails: adapter lines 51-52, then lines 78-80
GetAllFails(r) ==
    /\ req[r].pc = "start"
    /\ req' = [req EXCEPT
                 ![r] = Fail([@ EXCEPT
                                 !.trace = Append(@, CallOf("get_all", <<>>))],
                             "get_all")]
    /\ UNCHANGED <<db, cvars>>

\* lines 42-49: if not deposits
ReturnEmpty(r) ==
    /\ req[r].pc = "got"
    /\ req[r].deposits = <<>>
    /\ req' = [req EXCEPT
                 ![r] = Answer(@, UpdateBalancesResponse(
                                      TRUE, "No time deposits found to update",
                                      0))]
    /\ UNCHANGED <<db, cvars>>

\* lines 52-57: the original balances are kept, then the calculator runs on
\* the list get_all returned; an exception of the pass leaves by lines 78-80
CalculateAlways(r) ==
    /\ req[r].pc = "got"
    /\ LET pass == UpdateBalance(req[r].deposits)
           called ==
               [req[r] EXCEPT
                  !.pc = "calculated",
                  !.original_balances = OriginalBalances(req[r].deposits),
                  !.deposits = pass.xs,
                  !.trace =
                      Append(@, CallOf("update_balance", req[r].deposits))]
       IN  req' = [req EXCEPT
                     ![r] = IF pass.raised
                            THEN Fail(called, "update_balance")
                            ELSE called]
    /\ UNCHANGED <<db, cvars>>

Calculate(r) ==
    /\ req[r].pc = "got"
    /\ req[r].deposits # <<>>
    /\ LET pass == UpdateBalance(req[r].deposits)
           called ==
               [req[r] EXCEPT
                  !.pc = "calculated",
                  !.original_balances = OriginalBalances(req[r].deposits),
                  !.deposits = pass.xs,
                  !.trace =
                      Append(@, CallOf("update_balance", req[r].deposits))]
       IN  req' = [req EXCEPT
                     ![r] = IF pass.raised
                            THEN Fail(called, "update_balance")
                            ELSE called]
    /\ UNCHANGED <<db, cvars>>

\* line 61: self.repository.save_all(deposits); adapter lines 75-76
SaveAllRecomputes(r) ==
    /\ req[r].pc = "calculated"
    /\ LET deposits == UpdateBalance(req[r].deposits).xs
           models ==
               [k \in 1..Len(deposits) |-> DomainToModel(db, deposits[k])]
       IN  /\ db' = SaveAllModels(db, models)
           /\ req' = [req EXCEPT
                        ![r].pc = "saved",
                        ![r].trace =
                            Append(@, CallOf("save_all", req[r].deposits)),
                        ![r].presave = db,
                        ![r].stored = db']
    /\ UNCHANGED cvars

SaveAll(r) ==
    /\ req[r].pc = "calculated"
    /\ LET deposits == req[r].deposits
           models ==
               [k \in 1..Len(deposits) |-> DomainToModel(db, deposits[k])]
       IN  /\ db' = SaveAllModels(db, models)
           /\ req' = [req EXCEPT
                        ![r].pc = "saved",
                        ![r].trace = Append(@, CallOf("save_all", deposits)),
                        ![r].presave = db,
                        ![r].stored = db']
    /\ UNCHANGED cvars

\* line 61 when the database fails at a merge (failAt <= len(models)) or at
\* the commit: repository lines 119-121 roll back, adapter lines 77-78, then
\* lines 78-80
SaveAllFails(r) ==
    /\ req[r].pc = "calculated"
    /\ LET deposits == req[r].deposits
           models ==
               [k \in 1..Len(deposits) |-> DomainToModel(db, deposits[k])]
       IN  \E failAt \in 1..(Len(models) + 1) :
               /\ db' = Rollback(db, MergedBefore(db, models, failAt))
               /\ req' = [req EXCEPT
                            ![r] = Fail([@ EXCEPT
                                            !.trace =
                                                Append(@, CallOf("save_all",
                                                                 deposits)),
                                            !.presave = db,
                                            !.stored = db'],
                                        "save_all")]
    /\ UNCHANGED cvars

\* lines 64-76: the count of changed balances and the response
Respond(r) ==
    /\ req[r].pc = "saved"
    /\ LET updated_count ==
               UpdatedCount(req[r].deposits, req[r].original_balances)
       IN  req' = [req EXCEPT
                     ![r] = Answer(@, UpdateBalancesResponse(
                                          TRUE, SuccessMessage(updated_count),
                                          updated_count))]
    /\ UNCHANGED <<db, cvars>>

NextService ==
    \E r \in Requests :
        \/ GetAll(r)
        \/ GetAllFails(r)
        \/ ReturnEmpty(r)
        \/ Calculate(r)
        \/ SaveAll(r)
        \/ SaveAllFails(r)
        \/ Respond(r)

SpecService == InitService /\ [][NextService]_vars

(***************************************************************************)
(* TimeDepositRepositoryAdapter.save_all called on its own, with deposits  *)
(* that need not come from get_all.                                        *)
(***************************************************************************)
\* an id no row of a stored table has
UnknownId == MaxRows + 3

\* deposits as the calculator leaves them (2 decimal places), and one of 3
\* decimal places
DirectDeposits ==
    {TimeDeposit(id, "student", balance, 90) :
        id \in {NoId, 1, UnknownId},
        balance \in {FLit(100083, 100), FLit(125, 1000)}}

\* lists of one deposit, and of two deposits of different ids
DirectLists ==
    {<<d>> : d \in DirectDeposits}
        \cup {<<pair[1], pair[2]>> :
                  pair \in {p \in DirectDeposits \X DirectDeposits :
                                p[1].id # p[2].id}}

\* the ids the key generator hands out while a list is saved
GeneratedIds(table, deposits) ==
    (Len(table) + 1)..(Len(table) + Len(deposits))

\* the first invocation stands before line 61 with a list of its caller;
\* the caller gives no id the key generator is about to hand out
InitAdapter ==
    /\ xs = <<>>
    /\ interest = FZero
    /\ i = 1
    /\ pc = "idle"
    /\ calls = 0
    /\ orig = <<>>
    /\ acc = <<>>
    /\ db \in Tables
    /\ \E deposits \in DirectLists :
           /\ \A k \in 1..Len(deposits) :
                  deposits[k].id \notin GeneratedIds(db, deposits)
           /\ req = [r \in Requests |->
                       IF r = 1
                       THEN [NewRequest EXCEPT !.pc = "calculated",
                                               !.deposits = deposits]
                       ELSE NewRequest]

NextAdapter == \E r \in Requests : SaveAll(r) \/ SaveAllFails(r)

SpecAdapter == InitAdapter /\ [][NextAdapter]_vars

(***************************************************************************)
(* Vocabulary of the properties.                                           *)
(***************************************************************************)
\* a call of update_balance has run to its end
Returned == pc = "idle" /\ calls > 0

\* the records the running (or last) call has processed so far
Processed == 1..Len(acc)

\* the accumulator before record k was processed
Before(k) == IF k = 1 THEN FZero ELSE acc[k - 1]

KnownPlans == {"basic", "student", "premium"}

\* the contribution of a record as the rule table states it
Contribution(td) ==
    IF td.planType = "basic" /\ td.days > 30
    THEN FDivInt(FMul(td.balance, FLit(1, 100)), 12)
    ELSE IF td.planType = "student" /\ td.days > 30 /\ td.days < 366
    THEN FDivInt(FMul(td.balance, FLit(3, 100)), 12)
    ELSE IF td.planType = "premium" /\ td.days > 45
    THEN FDivInt(FMul(td.balance, FLit(5, 100)), 12)
    ELSE FZero

\* the contributions of records 1..k summed in sequence order
RECURSIVE SumTo(_, _)
SumTo(s, k) ==
    IF k = 0 THEN FZero ELSE FAdd(SumTo(s, k - 1), Contribution(s[k]))

\* (a * 100) / 100 as the floats compute it: not always the float a again
ThroughHundred(a) == FDivInt(FMul(a, FloatOf(100)), 100)

ExampleInput ==
    Deposits(<< <<"basic", FLit(100000, 100), 45>>,
                <<"student", FLit(200000, 100), 180>>,
                <<"premium", FLit(300000, 100), 60>> >>)

(***************************************************************************)
(* C1 as stated: after update_balance has run over a sequence, the balance *)
(* of every record k is round2(original balance of k + the sum of the      *)
(* contributions of records 1..k).                                         *)
(***************************************************************************)
C1_PlainSum ==
    Returned =>
        \A k \in 1..Len(xs) :
            xs[k].balance = PyRound2(FAdd(orig[k].balance, SumTo(orig, k)))

(***************************************************************************)
(* C1 as amended: after update_balance has run over a sequence, the        *)
(* balance of every record k is round2(original balance of k +             *)
(* (S * 100) / 100), S the sum of the contributions of records 1..k: each  *)
(* record receives the whole running accumulator, passed through the       *)
(* float product and quotient by 100, which can move its last bit.         *)
(***************************************************************************)
C1_CumulativeBalance ==
    Returned =>
        \A k \in 1..Len(xs) :
            xs[k].balance =
                PyRound2(FAdd(orig[k].balance, ThroughHundred(SumTo(orig, k))))

\* a finished pass whose third record contributes and ends with more than
\* its own contribution alone would give it
C1_Witness ==
    /\ Returned
    /\ Len(xs) = 3
    /\ Contribution(orig[3]) # FZero
    /\ xs[3].balance # PyRound2(FAdd(orig[3].balance, Contribution(orig[3])))
    /\ xs[3].balance # orig[3].balance

(***************************************************************************)
(* C2: the sequence (basic, 1000.00, 45), (student, 2000.00, 180),         *)
(* (premium, 3000.00, 60) ends with the balances 1000.83, 2005.83 and      *)
(* 3018.33.                                                                *)
(***************************************************************************)
C2_Example ==
    (Returned /\ calls = 1 /\ orig = ExampleInput) =>
        /\ xs[1].balance = FLit(100083, 100)
        /\ xs[2].balance = FLit(200583, 100)
        /\ xs[3].balance = FLit(301833, 100)

C2_Witness ==
    /\ Returned /\ calls = 1 /\ orig = ExampleInput
    /\ xs[3].balance = FLit(301833, 100)

(***************************************************************************)
(* C3: a basic record adds balance*0.01/12 to the accumulator exactly when *)
(* days > 30 and nothing when days <= 30, whatever lies above 30.          *)
(***************************************************************************)
C3_BasicRule ==
    \A k \in Processed :
        orig[k].planType = "basic" =>
            acc[k] = IF orig[k].days > 30
                     THEN FAdd(Before(k),
                               FDivInt(FMul(orig[k].balance, FLit(1, 100)), 12))
                     ELSE Before(k)

\* a basic record above 30 days contributed, and the basic record of exactly
\* 30 days processed after it added nothing
C3_Witness ==
    /\ Returned /\ Len(xs) = 2
    /\ orig[1].planType = "basic" /\ orig[1].days > 30 /\ acc[1] # FZero
    /\ orig[2].planType = "basic" /\ orig[2].days = 30 /\ acc[2] = acc[1]

(***************************************************************************)
(* C4: a student record adds balance*0.03/12 exactly when 30 < days < 366  *)
(* and nothing when days <= 30 or days >= 366.                             *)
(***************************************************************************)
C4_StudentRule ==
    \A k \in Processed :
        orig[k].planType = "student" =>
            acc[k] = IF orig[k].days > 30 /\ orig[k].days < 366
                     THEN FAdd(Before(k),
                               FDivInt(FMul(orig[k].balance, FLit(3, 100)), 12))
                     ELSE Before(k)

\* a student record of exactly 365 days has contributed
C4_Witness ==
    \E k \in Processed :
        /\ orig[k].planType = "student" /\ orig[k].days = 365
        /\ acc[k] # Before(k)

(***************************************************************************)
(* C5: a premium record adds balance*0.05/12 exactly when days > 45 and    *)
(* nothing when days <= 45: the nested checks days > 30, days > 45 of the  *)
(* code come to the single check days > 45.                                *)
(***************************************************************************)
C5_PremiumRule ==
    \A k \in Processed :
        orig[k].planType = "premium" =>
            acc[k] = IF orig[k].days > 45
                     THEN FAdd(Before(k),
                               FDivInt(FMul(orig[k].balance, FLit(5, 100)), 12))
                     ELSE Before(k)

\* a premium record of exactly 46 days has contributed
C5_Witness ==
    \E k \in Processed :
        /\ orig[k].planType = "premium" /\ orig[k].days = 46
        /\ acc[k] # Before(k)

(***************************************************************************)
(* C6: a record whose plan type is none of basic, student, premium adds    *)
(* nothing to the accumulator at any day count, and its balance still      *)
(* grows by the accumulator of the records before it.                      *)
(***************************************************************************)
C6_UnknownPlan ==
    \A k \in Processed :
        orig[k].planType \notin KnownPlans =>
            /\ acc[k] = Before(k)
            /\ xs[k].balance =
                   PyRound2(FAdd(orig[k].balance, ThroughHundred(Before(k))))

\* a gold record processed after a contributing record holds more than before
C6_Witness ==
    \E k \in Processed :
        /\ orig[k].planType = "gold"
        /\ Before(k) # FZero
        /\ FCmp(xs[k].balance, orig[k].balance) = 1

(***************************************************************************)
(* C7: update_balance never ends in an error: on records with non-negative *)
(* balance, non-negative integer days and any plan type the pass runs to   *)
(* its end, and a plan/day combination no rule matches adds nothing        *)
(* instead of being rejected.                                              *)
(***************************************************************************)
WellFormed(s) == \A k \in 1..Len(s) : s[k].days \in Nat

C7_NoError ==
    WellFormed(orig) =>
        /\ pc # "raised"
        /\ pc = "loop" => i \in 1..(Len(xs) + 1)
        /\ (pc = "loop" /\ i <= Len(xs)) => ~Raises(xs[i])
        /\ \A k \in Processed :
               Contribution(orig[k]) = FZero => acc[k] = Before(k)

\* a finished pass over an unknown plan type and a record below its threshold
C7_Witness ==
    /\ Returned /\ WellFormed(orig)
    /\ \E k \in 1..Len(xs) : orig[k].planType \notin KnownPlans
    /\ \E k \in 1..Len(xs) :
           orig[k].planType \in KnownPlans /\ Contribution(orig[k]) = FZero

(***************************************************************************)
(* C8: update_balance leaves id, planType, days and withdrawals of every   *)
(* record and the length and order of the sequence as they were; only      *)
(* balances are written.                                                   *)
(***************************************************************************)
C8_Frame ==
    /\ Len(xs) = Len(orig)
    /\ \A k \in 1..Len(xs) :
           /\ xs[k].id = orig[k].id
           /\ xs[k].planType = orig[k].planType
           /\ xs[k].days = orig[k].days
           /\ xs[k].withdrawals = orig[k].withdrawals

\* a finished pass that changed the balance of each of three records
C8_Witness ==
    /\ Returned /\ Len(xs) = 3
    /\ \A k \in 1..3 : xs[k].balance # orig[k].balance

(***************************************************************************)
(* C9 as stated: the balance of every record with a non-negative balance   *)
(* is, after update_balance, at least what it was before.                  *)
(***************************************************************************)
C9_NeverDecreases ==
    \A k \in Processed : FCmp(xs[k].balance, orig[k].balance) >= 0

\* floor(x * 100) on the exact value of x
FloorCents(x) == BShr(BMulSmall(x.m, 100), -x.e)

CentFloat(c) == FDivInt(FloatOfBig(c), 100)

\* b is the float of a decimal with at most 2 decimal places
TwoDecimals(b) ==
    \E c \in {FloorCents(b), BAdd(FloorCents(b), <<1>>)} : b = CentFloat(c)

(***************************************************************************)
(* C9 as amended: the balance of every record whose balance is             *)
(* non-negative and has at most 2 decimal places is, after update_balance, *)
(* at least what it was before; a balance with more decimals can lose its  *)
(* excess digits to the rounding.                                          *)
(***************************************************************************)
C9_NeverDecreasesCents ==
    \A k \in Processed :
        TwoDecimals(orig[k].balance) =>
            FCmp(xs[k].balance, orig[k].balance) >= 0

\* a 2-decimal balance grew by an accumulator that the rounding cut down
C9_Witness ==
    \E k \in Processed :
        /\ TwoDecimals(orig[k].balance)
        /\ FCmp(xs[k].balance, orig[k].balance) = 1
        /\ FCmp(xs[k].balance, FAdd(orig[k].balance, acc[k])) = -1

(***************************************************************************)
(* C10 as stated: the new balance is old balance + accumulator rounded to  *)
(* 2 decimal places half-up: a sum whose third decimal digit is exactly 5  *)
(* with nothing after it goes up to the next cent.  (The sum is taken as   *)
(* the code forms it, so that only the rounding rule is in question.)      *)
(***************************************************************************)
HalfUp2(x) ==
    CentFloat(BShr(BAdd(BShl(BMulSmall(x.m, 100), 1), BShl(<<1>>, -x.e)),
                   1 - x.e))

C10_HalfUp ==
    \A k \in Processed :
        xs[k].balance = HalfUp2(FAdd(orig[k].balance, ThroughHundred(acc[k])))

\* twice the distance of x * 100 from the integer c, compared with 1, all in
\* units of 2^x.e: c is within 1/2 of x * 100, and even when exactly 1/2 away
NearestCent(x, c) ==
    LET unit   == BShl(<<1>>, -x.e)
        twiceX == BShl(BMulSmall(x.m, 100), 1)
        twiceC == BMul(BShl(c, 1), unit)
    IN  /\ BCmp(BAdd(twiceX, unit), twiceC) >= 0
        /\ BCmp(BAdd(twiceC, unit), twiceX) >= 0
        /\ (BAdd(twiceX, unit) = twiceC \/ BAdd(twiceC, unit) = twiceX)
               => ~BOdd(c)

HalfWay(x) ==
    BAdd(BMul(BShl(FloorCents(x), 1), BShl(<<1>>, -x.e)), BShl(<<1>>, -x.e))
        = BShl(BMulSmall(x.m, 100), 1)

(***************************************************************************)
(* C10 as amended: the new balance is the float of the 2-decimal number    *)
(* nearest to the exact value of the float sum old balance +               *)
(* (accumulator * 100) / 100; a sum exactly halfway between two cents goes *)
(* to the even cent (0.125 becomes 0.12), not up.                          *)
(***************************************************************************)
C10_HalfEven ==
    \A k \in Processed :
        LET x == FAdd(orig[k].balance, ThroughHundred(acc[k]))
        IN  \E c \in {FloorCents(x), BAdd(FloorCents(x), <<1>>)} :
                NearestCent(x, c) /\ xs[k].balance = CentFloat(c)

\* a sum exactly halfway between two cents was rounded down, to the even cent
C10_Witness ==
    \E k \in Processed :
        LET x == FAdd(orig[k].balance, ThroughHundred(acc[k]))
        IN  /\ HalfWay(x)
            /\ xs[k].balance = CentFloat(FloorCents(x))

(***************************************************************************)
(* C11: rounding is applied once per record, to the sum old balance +      *)
(* accumulator; the accumulator and the contributions are carried forward  *)
(* unrounded, so a later record receives the sum of the unrounded          *)
(* contributions: three basic records of 1000.00 at 45 days end at         *)
(* 1000.83, 1001.67 and 1002.50, not at 1000.83, 1001.66 and 1002.49.      *)
(***************************************************************************)
ThreeBasic ==
    Deposits(<< <<"basic", FLit(100000, 100), 45>>,
                <<"basic", FLit(100000, 100), 45>>,
                <<"basic", FLit(100000, 100), 45>> >>)

RecordA == <<"basic", FLit(100000, 100), 45>>

RecordB == <<"student", FLit(200000, 100), 180>>

Balances(s) == [k \in 1..Len(s) |-> s[k].balance]

C12_OrderMatters ==
    (Returned /\ calls = 1 /\ orig = Deposits(<<RecordA, RecordB>>)) =>
        LET other == Balances(UpdateBalance(Deposits(<<RecordB, RecordA>>)).xs)
        IN  /\ xs[2].balance # other[1]
            /\ xs[1].balance # other[2]
            /\ xs[2].balance =
                   PyRound2(FAdd(orig[2].balance,
                                 ThroughHundred(FAdd(Contribution(orig[1]),
                                                     Contribution(orig[2])))))
            /\ other[1] =
                   PyRound2(FAdd(orig[2].balance,
                                 ThroughHundred(Contribution(orig[2]))))

\* [A, B] is done: B, second, holds 2005.83, where it holds 2005.00 as the
\* first of [B, A]
C12_Witness ==
    /\ Returned /\ calls = 1 /\ orig = Deposits(<<RecordA, RecordB>>)
    /\ xs[2].balance = FLit(200583, 100)
    /\ UpdateBalance(Deposits(<<RecordB, RecordA>>)).xs[1].balance
           = FLit(200500, 100)

(***************************************************************************)
(* C13: update_balance is deterministic: the balances a call ends with are *)
(* a function of the sequence it was given, the same whatever calls were   *)
(* made before on the same calculator.                                     *)
(***************************************************************************)
C13_Deterministic ==
    (pc \in {"idle", "raised"} /\ calls > 0) =>
        LET r == UpdateBalance(orig)
        IN  /\ Balances(xs) = Balances(r.xs)
            /\ r.raised <=> pc = "raised"

\* a second call is done, after a first call that accumulated interest, and
\* it changed a balance
C13_Witness ==
    /\ Returned /\ calls = 2
    /\ acc # <<>> /\ acc[Len(acc)] # FZero
    /\ \E k \in 1..Len(xs) : xs[k].balance # orig[k].balance

(***************************************************************************)
(* C14 as stated: when every record of the sequence fails the thresholds   *)
(* of its plan (every record has days <= 30, say), a pass leaves every     *)
(* balance unchanged, and so does a second pass over the result.           *)
(***************************************************************************)
\* no rule of the table applies to td
FailsThresholds(td) ==
    \/ td.days <= 30
    \/ td.planType = "student" /\ td.days >= 366
    \/ td.planType = "premium" /\ td.days <= 45
    \/ td.planType \notin KnownPlans

AllFail(s) == \A k \in 1..Len(s) : s[k].days \in Nat /\ FailsThresholds(s[k])

C14_NoOp ==
    AllFail(orig) => \A k \in Processed : xs[k].balance = orig[k].balance

(***************************************************************************)
(* C14 as amended: when every record of the sequence fails the thresholds  *)
(* of its plan and has a balance of at most 2 decimal places, a pass       *)
(* leaves every balance unchanged, and so does a second pass over the      *)
(* result.  (A balance with more decimals is rounded by the first pass.)   *)
(***************************************************************************)
C14_NoOpCents ==
    (AllFail(orig) /\ \A k \in 1..Len(orig) : TwoDecimals(orig[k].balance)) =>
        /\ \A k \in Processed : xs[k].balance = orig[k].balance
        /\ Returned => xs = orig

\* the second pass over two records that fail their thresholds is done and
\* the list is as it was
C14_Witness ==
    /\ Returned /\ calls = 2 /\ Len(xs) >= 2
    /\ AllFail(orig) /\ \A k \in 1..Len(orig) : TwoDecimals(orig[k].balance)
    /\ xs = orig

(***************************************************************************)
(* C15: update_balance on an empty sequence completes without error and    *)
(* changes nothing.                                                        *)
(***************************************************************************)
C15_Empty ==
    (calls > 0 /\ orig = <<>>) =>
        /\ pc \in {"loop", "idle"}
        /\ pc = "loop" => i > Len(xs)
        /\ xs = <<>>
        /\ acc = <<>>
        /\ interest = FZero

C15_Witness == Returned /\ orig = <<>> /\ xs = <<>>

(***************************************************************************)
(* C16: the accumulator is zero at the start of every call of              *)
(* update_balance and is not reset during a pass: no contribution of one   *)
(* call is carried into a later call, on the same calculator or not.       *)
(***************************************************************************)
C16_FreshAccumulator ==
    /\ (pc = "loop" /\ i = 1) => interest = FZero
    /\ pc = "loop" => interest = (IF acc = <<>> THEN FZero ELSE acc[Len(acc)])
    /\ Len(acc) >= 1 => acc[1] = Contribution(orig[1])
    /\ \A k \in Processed : FCmp(acc[k], Before(k)) >= 0

\* the second call on a list has processed its first record, after a first
\* call that ended with a non-zero accumulator on that list
C16_Witness ==
    /\ calls = 2 /\ pc = "loop" /\ i = 2
    /\ acc[1] # FZero
    /\ acc[1] = Contribution(orig[1])

(***************************************************************************)
(* C17: the contribution of a record is computed from its own balance as   *)
(* it is before the record is written in this pass, and from its own       *)
(* planType and days: not from its balance after the accumulator was       *)
(* added, nor from any other record.                                       *)
(***************************************************************************)
C17_OwnOldBalance ==
    \A k \in Processed :
        acc[k] = FAdd(Before(k), Contribution(orig[k]))

\* a contributing record, not the first of its pass, whose balance the pass
\* changed
C17_Witness ==
    \E k \in Processed :
        /\ k > 1 /\ Before(k) # FZero
        /\ Contribution(orig[k]) # FZero
        /\ xs[k].balance # orig[k].balance
        /\ acc[k] = FAdd(Before(k), Contribution(orig[k]))

(***************************************************************************)
(* C18: after k of the n records of a pass are processed, the first k      *)
(* records hold their final new balances and the other n - k still hold    *)
(* their original balances; a pass stopped after k records leaves exactly  *)
(* that.                                                                   *)
(***************************************************************************)
C18_PrefixDone ==
    /\ Len(acc) <= Len(xs)
    /\ pc = "loop" => i = Len(acc) + 1
    /\ \A k \in 1..Len(xs) :
           IF k <= Len(acc)
           THEN xs[k].balance =
                    PyRound2(FAdd(orig[k].balance,
                                  ThroughHundred(SumTo(orig, k))))
           ELSE xs[k] = orig[k]

\* a pass stopped by an exception after its first record: that record is
\* changed, the records after it are not
C18_Witness ==
    /\ pc = "raised" /\ Len(acc) = 1 /\ Len(xs) = 3
    /\ xs[1].balance # orig[1].balance
    /\ xs[2] = orig[2] /\ xs[3] = orig[3]

(***************************************************************************)
(* C19: when get_all returns a non-empty list, update_all_balances calls   *)
(* get_all, then the calculator, then save_all, in that order; save_all is *)
(* called exactly once, with the list get_all returned as the one pass of  *)
(* the calculator left it, and what is stored is that list: no contribution*)
(* is computed a second time before or during saving.                      *)
(***************************************************************************)
Ops(r) == [k \in 1..Len(req[r].trace) |-> req[r].trace[k].op]

ServiceOrder == <<"get_all", "update_balance", "save_all">>

\* the balance of the row of that id
StoredBalance(table, id) ==
    table[CHOOSE k \in 1..Len(table) : table[k].id = id].balance

C19_GetCalculateSave ==
    \A r \in Requests :
        (req[r].pc # "start" /\ req[r].got # <<>>) =>
            /\ Ops(r) = SubSeq(ServiceOrder, 1, Len(Ops(r)))
            /\ req[r].pc \in {"saved", "done"} =>
                   /\ Ops(r) = ServiceOrder
                   /\ req[r].trace[2].arg = req[r].got
                   /\ req[r].deposits = UpdateBalance(req[r].got).xs
                   /\ req[r].trace[3].arg = req[r].deposits
                   /\ Len(req[r].stored) = Len(req[r].deposits)
                   /\ \A k \in 1..Len(req[r].deposits) :
                          FloatOfDecimal(
                              StoredBalance(req[r].stored,
                                            req[r].deposits[k].id)) =
                                  req[r].deposits[k].balance

\* an invocation over the three example deposits has answered: three calls
\* were made and every stored balance is the balance of one pass
C19_Witness ==
    \E r \in Requests :
        /\ req[r].pc = "done"
        /\ Len(req[r].got) = 3
        /\ Ops(r) = ServiceOrder
        /\ req[r].response[1].updated_count = 3
        /\ \A k \in 1..3 :
               /\ req[r].deposits[k].balance # req[r].got[k].balance
               /\ FloatOfDecimal(
                      StoredBalance(req[r].stored, req[r].deposits[k].id)) =
                          req[r].deposits[k].balance

(***************************************************************************)
(* C20: when get_all returns no deposits, update_all_balances answers      *)
(* success = True, updated_count = 0 and the message "No time deposits     *)
(* found to update", and calls neither the calculator nor save_all.        *)
(***************************************************************************)
C20_EmptyRepository ==
    \A r \in Requests :
        (req[r].pc \notin {"start", "failed"} /\ req[r].got = <<>>) =>
            /\ req[r].pc \in {"got", "done"}
            /\ Ops(r) = <<"get_all">>
            /\ req[r].stored = <<>>
            /\ db = <<>>
            /\ req[r].pc = "done" =>
                   req[r].response =
                       <<UpdateBalancesResponse(
                             TRUE, "No time deposits found to update", 0)>>

C20_Witness ==
    \E r \in Requests :
        /\ req[r].pc = "done"
        /\ req[r].got = <<>>
        /\ Ops(r) = <<"get_all">>
        /\ req[r].response[1].success
        /\ req[r].response[1].updated_count = 0

(***************************************************************************)
(* C21: the updated_count of an answer of update_all_balances is the       *)
(* number of retrieved deposits (their ids pairwise distinct) whose        *)
(* balance after the calculator pass differs from their balance before it: *)
(* between 0 and the number of deposits, and 3 for the deposits            *)
(* (basic, 1000, 45), (student, 2000, 90), (premium, 3000, 60).            *)
(***************************************************************************)
DistinctIds(s) ==
    \A j, k \in 1..Len(s) : s[j].id = s[k].id => j = k

Changed(r) ==
    {k \in 1..Len(req[r].got) :
        req[r].deposits[k].balance # req[r].got[k].balance}

ExampleDeposits ==
    [k \in 1..Len(ExampleRows) |-> ModelToDomain(Table(ExampleRows)[k])]

C21_UpdatedCount ==
    \A r \in Requests :
        (req[r].pc = "done" /\ req[r].got # <<>> /\ DistinctIds(req[r].got)) =>
            /\ req[r].response[1].updated_count = Cardinality(Changed(r))
            /\ req[r].response[1].updated_count \in 0..Len(req[r].got)
            /\ req[r].got = ExampleDeposits =>
                   req[r].response[1].updated_count = 3

\* an answer over the example deposits: the pass changed all three
C21_Witness ==
    \E r \in Requests :
        /\ req[r].pc = "done"
        /\ req[r].got = ExampleDeposits
        /\ DistinctIds(req[r].got)
        /\ Changed(r) = {1, 2, 3}
        /\ req[r].response[1].updated_count = 3
        /\ req[r].response[1].message =
               "Successfully updated 3 time deposit balances"

(***************************************************************************)
(* C22: get_all returns the records of an unchanged stored table in the    *)
(* same order at every call, so that two update runs that read the same    *)
(* stored data give every record the same position and the same            *)
(* accumulator prefix. The query states no order: this does not hold.      *)
(***************************************************************************)
HasRead(r) == req[r].pc # "start" /\ Len(req[r].got) = Len(req[r].read)

C22_StableOrder ==
    \A r1, r2 \in Requests :
        (HasRead(r1) /\ HasRead(r2) /\ req[r1].read = req[r2].read) =>
            req[r1].got = req[r2].got

(***************************************************************************)
(* C23: update_balance is a single forward pass. A running call ends; it   *)
(* visits the records in index order, one per iteration, and writes only   *)
(* the balance of the record it visits; once the last record is passed it  *)
(* only returns, every record visited exactly once.                        *)
(***************************************************************************)
ForwardStep ==
    /\ Len(xs') = Len(xs)
    /\ \A k \in 1..Len(xs) : k # i => xs'[k] = xs[k]
    /\ \/ i' = i /\ xs' = xs
       \/ pc = "loop" /\ pc' = "loop" /\ i' = i + 1 /\ Len(acc') = Len(acc) + 1
       \/ pc # "loop" /\ pc' = "loop" /\ i' = 1 /\ xs' = xs
    /\ (pc = "loop" /\ i > Len(xs)) => (pc' = "idle" /\ xs' = xs)

C23_SinglePass ==
    /\ [](pc = "loop" => (i = Len(acc) + 1 /\ i <= Len(xs) + 1))
    /\ [](Returned => (Len(acc) = Len(xs) /\ i = Len(xs) + 1))
    /\ [][ForwardStep]_vars
    /\ (pc = "loop") ~> (pc # "loop")

\* a call over three records has returned after three iterations
C23_Witness ==
    /\ Returned
    /\ Len(xs) = 3 /\ Len(acc) = 3 /\ i = 4
    /\ \A k \in 1..3 : xs[k].balance # orig[k].balance

(***************************************************************************)
(* C24: a failure raised by get_all, by the calculator or by save_all      *)
(* inside update_all_balances leaves the service as a ServiceException,    *)
(* never as a response, and the router answers every such failure of       *)
(* PUT /time-deposits/updateBalances with status 500.                      *)
(***************************************************************************)
C24_FailuresAre500 ==
    \A r \in Requests :
        /\ req[r].failure # "" =>
               /\ req[r].pc = "failed"
               /\ req[r].error = "ServiceException"
               /\ req[r].response = <<>>
               /\ Len(req[r].http) = 1
               /\ req[r].http[1].status_code = 500
               /\ req[r].trace[Len(req[r].trace)].op = req[r].failure
        /\ (req[r].pc \in {"calculated", "saved", "done"}
                /\ req[r].got # <<>>) =>
               ~UpdateBalance(req[r].got).raised
        /\ req[r].pc = "failed" => req[r].failure # ""
        /\ req[r].response # <<>> =>
               (req[r].failure = "" /\ req[r].http[1].status_code = 200)

\* one invocation failed in the calculator, after its first record was
\* written, the other in get_all: both were answered 500 and nothing was saved
C24_Witness ==
    \E r1, r2 \in Requests :
        /\ req[r1].failure = "update_balance"
        /\ req[r1].deposits[1].balance # req[r1].got[1].balance
        /\ req[r1].http[1].status_code = 500
        /\ req[r2].failure = "get_all"
        /\ req[r2].http[1].status_code = 500
        /\ db = req[r1].read

\* an invocation failed in save_all and was answered 500
C24_SaveWitness ==
    \E r \in Requests :
        /\ req[r].failure = "save_all"
        /\ req[r].http[1].status_code = 500

(***************************************************************************)
(* C25: save_all_models is all or nothing. Either every model of the list  *)
(* is merged and one commit stores all the new balances, or a database     *)
(* error at a merge or at the commit rolls the session back, an exception  *)
(* is raised, and no stored balance differs from its value before the call.*)
(***************************************************************************)
Saving(r) == Len(req[r].trace) = 3

RowOfId(table, id) == table[CHOOSE k \in 1..Len(table) : table[k].id = id]

C25_AllOrNothing ==
    \A r \in Requests :
        Saving(r) =>
            IF req[r].failure = "save_all"
            THEN /\ req[r].pc = "failed"
                 /\ req[r].stored = req[r].presave
            ELSE /\ req[r].pc \in {"saved", "done"}
                 /\ Len(req[r].stored) = Len(req[r].presave)
                 /\ \A k \in 1..Len(req[r].deposits) :
                        RowOfId(req[r].stored, req[r].deposits[k].id) =
                            DomainToModel(req[r].presave, req[r].deposits[k])

\* a call of save_all_models that failed after the pass had changed balances:
\* the table is as before the call, and differs from what a commit would store
C25_Witness ==
    \E r \in Requests :
        /\ req[r].failure = "save_all"
        /\ Len(req[r].deposits) >= 2
        /\ req[r].stored = req[r].presave
        /\ db = req[r].presave
        /\ \A k \in 1..Len(req[r].deposits) :
               RowOfId(db, req[r].deposits[k].id) #
                   DomainToModel(db, req[r].deposits[k])

(***************************************************************************)
(* C26: _domain_to_model returns, for a deposit whose id is stored, the    *)
(* stored model itself with balance, planType and days overwritten from    *)
(* the deposit and its id unchanged; for a deposit without id or of an id  *)
(* that is not stored, a new model with the id, planType, days and balance *)
(* of the deposit. In both cases the balance that is persisted is the      *)
(* 2-decimal balance the calculator wrote.                                 *)
(***************************************************************************)
Stored(table, id) == id # NoId /\ \E k \in 1..Len(table) : table[k].id = id

\* the row save_all left for the k-th deposit of the list
SavedRow(r, k) ==
    LET d == req[r].deposits[k]
    IN  IF Stored(req[r].presave, d.id) THEN RowOfId(req[r].stored, d.id)
        ELSE req[r].stored[Len(req[r].presave) +
                 Cardinality({j \in 1..k :
                     ~Stored(req[r].presave, req[r].deposits[j].id)})]

NonNegative(s) == \A k \in 1..Len(s) : FCmp(s[k].balance, FZero) >= 0

C27_AccumulatorGrows ==
    NonNegative(orig) =>
        \A k \in Processed :
            /\ FCmp(acc[k], FZero) >= 0
            /\ FCmp(acc[k], Before(k)) >= 0
            /\ acc[k] = SumTo(orig, k)

\* a pass over three records: the first contributes, the second adds
\* nothing and the third contributes again
C27_Witness ==
    /\ Returned /\ Len(acc) = 3 /\ NonNegative(orig)
    /\ FCmp(acc[1], FZero) > 0
    /\ Contribution(orig[2]) = FZero /\ acc[2] = acc[1]
    /\ FCmp(acc[3], acc[2]) > 0

\* new balance minus old balance of record k, in cents
Gain(k) == IntOf(Cents(xs[k].balance)) - IntOf(Cents(orig[k].balance))

CentInputs(s) ==
    NonNegative(s) /\ \A k \in 1..Len(s) : TwoDecimals(s[k].balance)

SecondPassDone == Returned /\ calls = 2

OneCent == FLit(1, 100)

C29_BelowACent ==
    /\ SecondPassDone
    /\ Len(acc) = 1
    /\ Contribution(orig[1]) # FZero
    /\ xs[1].balance = FLit(600, 100)

\* invocations f and s have both saved, and both executed get_all before
\* either executed save_all: f saved first, on the table both had read
Interleaved(f, s) ==
    /\ f # s
    /\ req[f].pc \in {"saved", "done"}
    /\ req[s].pc \in {"saved", "done"}
    /\ req[f].read = req[s].read
    /\ req[f].presave = req[f].read
    /\ req[s].presave = req[f].stored

\* the deposits of the rows of a table, as a set
Originals(table) == {ModelToDomain(table[k]) : k \in 1..Len(table)}

Elements(s) == {s[k] : k \in 1..Len(s)}

(***************************************************************************)
(* C30: when two invocations of update_all_balances both execute get_all   *)
(* before either executes save_all, both compute from the same original    *)
(* balances, and the balances persisted at the end are those of one pass   *)
(* over the originals, the pass of the invocation that saved last, not     *)
(* those of a pass over the result of a pass; nothing in the code prevents *)
(* the interleaving.                                                       *)
(***************************************************************************)
C30_LostUpdate ==
    \A f, s \in Requests :
        Interleaved(f, s) =>
            /\ Elements(req[f].got) = Originals(req[f].read)
            /\ Elements(req[s].got) = Originals(req[f].read)
            /\ req[f].original_balances = req[s].original_balances
            /\ req[s].deposits = UpdateBalance(req[s].got).xs
            /\ db = req[s].stored
            /\ Len(db) = Len(req[s].read)
            /\ \A k \in 1..Len(req[s].deposits) :
                   FloatOfDecimal(StoredBalance(db, req[s].deposits[k].id))
                       = req[s].deposits[k].balance

\* both invocations read the three example rows before either saved: the
\* table ends at 1000.83, 2005.83 and 3018.33, the balances of one pass,
\* where a pass over these would raise every one of them again
C30_Witness ==
    \E f, s \in Requests :
        /\ Interleaved(f, s)
        /\ req[f].read = Table(ExampleRows)
        /\ req[f].stored # req[f].read
        /\ StoredBalance(db, 1) = 100083
        /\ StoredBalance(db, 2) = 200583
        /\ StoredBalance(db, 3) = 301833
        /\ LET again == UpdateBalance(req[s].deposits).xs
           IN  \A k \in 1..3 :
                   FCmp(again[k].balance, req[s].deposits[k].balance) > 0

====
